---- MODULE Spec2Model ----
(***************************************************************************)
(* A model of the go-dns wire codec: the 512-byte cursor buffer            *)
(* (BytePacketBuffer), the name codec (ReadQName / WriteQName), the header *)
(* codec (DnsHeader), the question and record codecs and the message       *)
(* assembly (DnsPacket.Write / FromBuffer2DnsPacket).                      *)
(*                                                                         *)
(* Go values are modelled as follows.  A byte is a number in 0..255, a     *)
(* uint16 a number in 0..65535 (arithmetic is reduced % 2^16 where the     *)
(* code computes in uint16), a string or a []byte is a sequence of bytes   *)
(* ('.' is 46), an error is a string (Nil when there is none) and a        *)
(* runtime panic (index or slice bounds out of range) is the error value   *)
(* Panic.  A *BytePacketBuffer is the record [Buf, Pos].                   *)
(***************************************************************************)
EXTENDS Integers, Sequences, FiniteSets, TLC

VARIABLES
    Buf,        \* BytePacketBuffer.Buf: [0..511 -> byte]
    Pos,        \* BytePacketBuffer.Pos: uint16
    pre,        \* the buffer [Buf, Pos] as it was before the last operation
    call,       \* the last operation: [op, arg, err, val]
    moves,      \* number of Seek/Step calls made (buffer specification)
    nops,       \* number of other buffer calls made (buffer specification)
    rq,         \* the locals of a running ReadQName (name-decode specification)
    pc,         \* position of the codec program
    obj,        \* the Go value in hand: [kind, v]
    sent,       \* the value that was encoded into the datagram being decoded
    data,       \* the datagram loaded into the buffer by SetBuffer
    sec,        \* DnsPacket.Write / FromBuffer2DnsPacket: section being processed
    idx,        \* ... and the index i of its loop
    starts,     \* FromBuffer2DnsPacket: cursor at which each parsed entry began
    rounds,     \* number of buffers used so far by the codec program
    src         \* where obj comes from: "input", or "wire" when it was decoded

vars == <<Buf, Pos, pre, call, moves, nops, rq, pc, obj, sent, data, sec, idx, starts, rounds, src>>

----------------------------------------------------------------------------
(* Program constants *)

BufSize == 512
maxJums == 5
MaxLabel == 63

NOERROR == 0
FORMERR == 1
SERVFAIL == 2
NXDOMAIN == 3
NOTIMP == 4
REFUSED == 5

UNKNOWN == 0
A == 1
NS == 2
CNAME == 3
MX == 4
AAAA == 5

Nil == "nil"
ErrEnd == "end of buffer"
ErrJumps == "limit of 5 jums exceeded"
ErrLabel == "signle label exceeds 63 characters of length"
ErrIPv4 == "invalid IPv4 address"
ErrIPv6 == "invalid IPv6 address"
Panic == "panic"

Dot == 46

----------------------------------------------------------------------------
(* Fixed-width integer arithmetic *)

U8(x) == x % 256
U16(x) == x % 65536

\* A uint32 is held as its four bytes <<b1, b2, b3, b4>>, most significant
\* first (TLC's integers are narrower than 32 unsigned bits):
\* byte k of w is (w >> (32 - 8k)) & 0xFF, and the word made of four bytes
\* is b1<<24 | b2<<16 | b3<<8 | b4.
Word32(b1, b2, b3, b4) == <<b1, b2, b3, b4>>
Byte32(w, k) == w[k]
Zero32 == Word32(0, 0, 0, 0)

\* x op y for the bitwise operator whose truth table is f, four bits at a
\* time: Nibble is the result on the low four bits.
Nibble(f, x, y) ==
    f[x % 2][y % 2] + 2 * f[(x \div 2) % 2][(y \div 2) % 2]
        + 4 * f[(x \div 4) % 2][(y \div 4) % 2]
        + 8 * f[(x \div 8) % 2][(y \div 8) % 2]

RECURSIVE Bitwise(_, _, _)
Bitwise(f, x, y) ==
    IF x = 0 /\ y = 0 THEN 0
    ELSE Nibble(f, x, y) + 16 * Bitwise(f, x \div 16, y \div 16)

BitAnd(x, y) == Bitwise(0 :> (0 :> 0 @@ 1 :> 0) @@ 1 :> (0 :> 0 @@ 1 :> 1), x, y)
BitOr(x, y) == Bitwise(0 :> (0 :> 0 @@ 1 :> 1) @@ 1 :> (0 :> 1 @@ 1 :> 1), x, y)
BitXor(x, y) == Bitwise(0 :> (0 :> 0 @@ 1 :> 1) @@ 1 :> (0 :> 1 @@ 1 :> 0), x, y)
Shr(x, n) == x \div (2 ^ n)
Shl(x, n) == x * (2 ^ n)

----------------------------------------------------------------------------
(* BytePacketBuffer *)

Buffer(buf, pos) == [Buf |-> buf, Pos |-> pos]

\* NewBytePacketBuffer: Go zero-initialises the array and the cursor.
NewBytePacketBuffer == Buffer([i \in 0..(BufSize - 1) |-> 0], 0)

\* SetBuffer: copy(b.Buf[:], buf) copies min(512, len(buf)) bytes.
SetBuffer(b, bytes) ==
    [b EXCEPT !.Buf = [i \in 0..(BufSize - 1) |->
                          IF i < Len(bytes) THEN bytes[i + 1] ELSE b.Buf[i]]]

Res(b, err, val) == [b |-> b, err |-> err, val |-> val]

\* "x := v; F(x)": v is computed once and F is applied to its value.
With(v, F(_)) == CHOOSE y \in {F(x) : x \in {v}} : TRUE

\* "r := call; if err != nil { return err }; F(r)".
Try(r, F(_)) == CHOOSE y \in {IF x.err # Nil THEN x ELSE F(x) : x \in {r}} : TRUE

\* Set: b.Buf[pos] = val; the index expression panics outside the array.
Set(b, pos, val) ==
    IF pos >= BufSize THEN Res(b, Panic, 0)
    ELSE Res([b EXCEPT !.Buf[pos] = val], Nil, 0)

Set2Bytes(b, pos, val) ==
    Try(Set(b, pos, U8(Shr(val, 8))), LAMBDA r1 :
    Set(r1.b, U16(pos + 1), BitAnd(val, 255)))

Step(b, steps) == Res([b EXCEPT !.Pos = U16(b.Pos + steps)], Nil, 0)

Seek(b, pos) == Res([b EXCEPT !.Pos = pos], Nil, 0)

Read(b) ==
    IF b.Pos >= BufSize THEN Res(b, ErrEnd, 0)
    ELSE Res([b EXCEPT !.Pos = U16(b.Pos + 1)], Nil, b.Buf[b.Pos])

\* Get with the bound one byte short.
GetShort(b, pos) ==
    IF pos >= BufSize - 1 THEN Res(b, ErrEnd, 0)
    ELSE Res(b, Nil, b.Buf[pos])

Get(b, pos) ==
    IF pos >= BufSize THEN Res(b, ErrEnd, 0)
    ELSE Res(b, Nil, b.Buf[pos])

\* GetRange: start+len is a uint16 sum; b.Buf[start : end] panics when
\* start > end (end <= 511 here, so the capacity check cannot fail).
GetRange(b, start, len) ==
    LET end == U16(start + len)
    IN  IF end >= BufSize THEN Res(b, ErrEnd, <<>>)
        ELSE IF start > end THEN Res(b, Panic, <<>>)
        ELSE Res(b, Nil, [i \in 1..(end - start) |-> b.Buf[start + i - 1]])

Read2Bytes(b) ==
    Try(Read(b), LAMBDA r1 :
    Try(Read(r1.b), LAMBDA r2 :
    Res(r2.b, Nil, BitOr(Shl(r1.val, 8), r2.val))))

\* Read4Bytes returns the zero word with an error.
Read4Bytes(b) ==
    With(Try(Read(b), LAMBDA r1 :
         Try(Read(r1.b), LAMBDA r2 :
         Try(Read(r2.b), LAMBDA r3 :
         Try(Read(r3.b), LAMBDA r4 :
         Res(r4.b, Nil, Word32(r1.val, r2.val, r3.val, r4.val)))))),
         LAMBDA r : IF r.err # Nil THEN Res(r.b, r.err, Zero32) ELSE r)

\* write with its bound test one position late.
writeLate(b, val) ==
    IF b.Pos > BufSize THEN Res(b, ErrEnd, 0)
    ELSE IF b.Pos = BufSize THEN Res([b EXCEPT !.Pos = U16(b.Pos + 1)], Nil, 0)
    ELSE Res([b EXCEPT !.Buf[b.Pos] = val, !.Pos = U16(b.Pos + 1)], Nil, 0)

write(b, val) ==
    IF b.Pos >= BufSize THEN Res(b, ErrEnd, 0)
    ELSE Res([b EXCEPT !.Buf[b.Pos] = val, !.Pos = U16(b.Pos + 1)], Nil, 0)

Write1Byte(b, val) == write(b, val)

Write2Byte(b, val) ==
    Try(write(b, U8(Shr(val, 8))), LAMBDA r1 :
    write(r1.b, U8(BitAnd(val, 255))))

Write4Byte(b, val) ==
    Try(write(b, Byte32(val, 1)), LAMBDA r1 :
    Try(write(r1.b, Byte32(val, 2)), LAMBDA r2 :
    Try(write(r2.b, Byte32(val, 3)), LAMBDA r3 :
    write(r3.b, Byte32(val, 4)))))

----------------------------------------------------------------------------
(* Name codec *)

\* utf8.DecodeRuneInString at byte i of s: the width of the well-formed
\* multi-byte encoding that starts there, 0 when there is none.
IsCont(x) == x >= 128 /\ x <= 191

Utf8Width(s, i) ==
    LET c0 == s[i]
        c1 == IF i + 1 <= Len(s) THEN s[i + 1] ELSE 0
        c2 == IF i + 2 <= Len(s) THEN s[i + 2] ELSE 0
        c3 == IF i + 3 <= Len(s) THEN s[i + 3] ELSE 0
    IN  IF c0 >= 194 /\ c0 <= 223 /\ IsCont(c1) THEN 2
        ELSE IF /\ c0 >= 224 /\ c0 <= 239
                /\ IsCont(c1) /\ IsCont(c2)
                /\ (c0 = 224 => c1 >= 160)
                /\ (c0 = 237 => c1 <= 159) THEN 3
        ELSE IF /\ c0 >= 240 /\ c0 <= 244
                /\ IsCont(c1) /\ IsCont(c2) /\ IsCont(c3)
                /\ (c0 = 240 => c1 >= 144)
                /\ (c0 = 244 => c1 <= 143) THEN 4
        ELSE 0

\* Byte i of s is a byte that is not part of a well-formed encoding: a
\* range over the string yields utf8.RuneError of width 1 for it.
BadByte(s, i) ==
    /\ s[i] >= 128
    /\ Utf8Width(s, i) = 0
    /\ ~\E j \in 1..3 : i - j >= 1 /\ Utf8Width(s, i - j) > j

LowerByte(c) == IF c >= 65 /\ c <= 90 THEN c + 32 ELSE c

\* strings.ToLower(string(bs)).  An all-ASCII string has 'A'..'Z' mapped to
\* 'a'..'z'.  Any other string goes through strings.Map(unicode.ToLower),
\* which also writes each ill-formed byte as U+FFFD (EF BF BD).  The
\* well-formed non-ASCII characters that reach it in the model are U+0347
\* and U+FFFD; unicode.ToLower leaves both as they are.
ToLower(bytes) ==
    IF \A i \in 1..Len(bytes) : bytes[i] < 128
    THEN [i \in 1..Len(bytes) |-> LowerByte(bytes[i])]
    ELSE
    With({i \in 1..Len(bytes) : BadByte(bytes, i)}, LAMBDA bad :
    LET At(i) == i + 2 * Cardinality({j \in bad : j < i})
        Width(i) == IF i \in bad THEN 3 ELSE 1
    IN  [k \in 1..(Len(bytes) + 2 * Cardinality(bad)) |->
            LET i == CHOOSE x \in 1..Len(bytes) : At(x) <= k /\ k < At(x) + Width(x)
            IN  IF i \in bad THEN <<239, 191, 189>>[k - At(i) + 1]
                ELSE LowerByte(bytes[i])])

\* The locals of ReadQName at the top of its loop.
RQInit(b) ==
    [b |-> b, pos |-> b.Pos, jumped |-> FALSE, jumpsPerformed |-> 0,
     sb |-> <<>>, delim |-> <<>>, st |-> "loop", err |-> Nil]

RQReturn(s, b, err) == [s EXCEPT !.b = b, !.st = "return", !.err = err, !.sb = <<>>]

\* The pointer branch without its jump count.
RQJumpUncounted(s, offset) == [s EXCEPT !.pos = offset, !.jumped = TRUE]

\* The end of the pointer branch: continue from the pointer's target.
RQJump(s, offset) ==
    [s EXCEPT !.pos = offset, !.jumped = TRUE, !.jumpsPerformed = s.jumpsPerformed + 1]

\* An iteration whose jump check stops at the limit itself.
RQIterEager(s) ==
    IF s.jumpsPerformed >= maxJums THEN RQReturn(s, s.b, ErrJumps)
    ELSE
    With(Get(s.b, s.pos), LAMBDA g :
    IF g.err # Nil THEN RQReturn(s, s.b, g.err)
    ELSE IF BitAnd(g.val, 192) = 192 THEN
        With(IF ~s.jumped THEN Seek(s.b, U16(s.pos + 2)).b ELSE s.b, LAMBDA b1 :
        With(Get(b1, U16(s.pos + 1)), LAMBDA g2 :
        IF g2.err # Nil THEN RQReturn(s, b1, g2.err)
        ELSE RQJump([s EXCEPT !.b = b1],
                    BitOr(U16(Shl(BitXor(g.val, 192), 8)), g2.val))))
    ELSE IF g.val = 0 THEN [s EXCEPT !.pos = U16(s.pos + 1), !.st = "break"]
    ELSE
        With(GetRange(s.b, U16(s.pos + 1), g.val), LAMBDA gr :
        IF gr.err # Nil THEN RQReturn(s, s.b, gr.err)
        ELSE [s EXCEPT !.sb = s.sb \o s.delim \o ToLower(gr.val),
                       !.delim = <<Dot>>,
                       !.pos = U16(U16(s.pos + 1) + g.val)]))

\* One iteration of ReadQName's for loop.
RQIter(s) ==
    IF s.jumpsPerformed > maxJums THEN RQReturn(s, s.b, ErrJumps)
    ELSE
    With(Get(s.b, s.pos), LAMBDA g :
    IF g.err # Nil THEN RQReturn(s, s.b, g.err)
    ELSE IF BitAnd(g.val, 192) = 192 THEN
        With(IF ~s.jumped THEN Seek(s.b, U16(s.pos + 2)).b ELSE s.b, LAMBDA b1 :
        With(Get(b1, U16(s.pos + 1)), LAMBDA g2 :
        IF g2.err # Nil THEN RQReturn(s, b1, g2.err)
        ELSE RQJump([s EXCEPT !.b = b1],
                    BitOr(U16(Shl(BitXor(g.val, 192), 8)), g2.val))))
    ELSE IF g.val = 0 THEN [s EXCEPT !.pos = U16(s.pos + 1), !.st = "break"]
    ELSE
        With(GetRange(s.b, U16(s.pos + 1), g.val), LAMBDA gr :
        IF gr.err # Nil THEN RQReturn(s, s.b, gr.err)
        ELSE [s EXCEPT !.sb = s.sb \o s.delim \o ToLower(gr.val),
                       !.delim = <<Dot>>,
                       !.pos = U16(U16(s.pos + 1) + g.val)]))

\* The code after the loop: the cursor moves only when no jump was made.
RQFinish(s) ==
    [s EXCEPT !.b = IF ~s.jumped THEN Seek(s.b, s.pos).b ELSE s.b, !.st = "return"]

RECURSIVE RQRun(_)
RQRun(s) ==
    IF s.st = "loop" THEN With(RQIter(s), LAMBDA t : RQRun(t))
    ELSE IF s.st = "break" THEN With(RQFinish(s), LAMBDA t : RQRun(t))
    ELSE s

ReadQName(b) == With(RQRun(RQInit(b)), LAMBDA s : Res(s.b, s.err, s.sb))

\* strings.Split(qname, "."): the pieces between consecutive separators,
\* one more piece than there are dots.  Cut(k) is the k-th cut point, the
\* ends of the string being cut points 0 and Len + 1.
Split(qname) ==
    LET cuts == {0, Len(qname) + 1} \cup {i \in 1..Len(qname) : qname[i] = Dot}
        Cut(k) == CHOOSE c \in cuts : Cardinality({x \in cuts : x < c}) = k - 1
    IN  [k \in 1..(Cardinality(cuts) - 1) |-> SubSeq(qname, Cut(k) + 1, Cut(k + 1) - 1)]

\* WriteQName's inner loop over bytes lo..hi of the label, in order,
\* returning at the first error: the first half of the range, then the
\* second.
RECURSIVE WriteBytes(_, _, _, _)
WriteBytes(b, bytes, lo, hi) ==
    IF lo > hi THEN Res(b, Nil, 0)
    ELSE IF lo = hi THEN Write1Byte(b, bytes[lo])
    ELSE Try(WriteBytes(b, bytes, lo, (lo + hi) \div 2), LAMBDA r :
         WriteBytes(r.b, bytes, (lo + hi) \div 2 + 1, hi))

\* The turn of the loop with a length check that also refuses 63 bytes.
WriteLabelShort(b, label) ==
    IF Len(label) >= MaxLabel THEN Res(b, ErrLabel, 0)
    ELSE
    Try(Write1Byte(b, U8(Len(label))), LAMBDA r1 :
    Try(WriteBytes(r1.b, label, 1, Len(label)), LAMBDA r2 :
    Write1Byte(r2.b, 0)))

\* One turn of WriteQName's outer loop: the length check, the length
\* byte, the label's bytes, and a zero byte.
WriteLabel(b, label) ==
    IF Len(label) > MaxLabel THEN Res(b, ErrLabel, 0)
    ELSE
    Try(Write1Byte(b, U8(Len(label))), LAMBDA r1 :
    Try(WriteBytes(r1.b, label, 1, Len(label)), LAMBDA r2 :
    Write1Byte(r2.b, 0)))

\* WriteQName's outer loop over labels lo..hi, in order, returning at the
\* first error: the first half of the range, then the second.
RECURSIVE WriteLabels(_, _, _, _)
WriteLabels(b, labels, lo, hi) ==
    IF lo > hi THEN Res(b, Nil, 0)
    ELSE IF lo = hi THEN WriteLabel(b, labels[lo])
    ELSE Try(WriteLabels(b, labels, lo, (lo + hi) \div 2), LAMBDA r :
         WriteLabels(r.b, labels, (lo + hi) \div 2 + 1, hi))

WriteQName(b, qname) ==
    With(Split(qname), LAMBDA labels : WriteLabels(b, labels, 1, Len(labels)))

----------------------------------------------------------------------------
(* Header codec *)

\* The zero value of DnsHeader (NewDnsPacket's &DnsHeader{}).
ZeroHeader ==
    [ID |-> 0, RecursionDesired |-> FALSE, TruncatedMessage |-> FALSE,
     AuthoritativeAnswer |-> FALSE, Opcode |-> 0, Response |-> FALSE,
     Rescode |-> NOERROR, CheckingDisabled |-> FALSE, AuthedData |-> FALSE,
     Z |-> FALSE, RecursionAvailable |-> FALSE, Questions |-> 0, Answers |-> 0,
     AuthoritativeEntries |-> 0, ResourceEntries |-> 0]

\* The response code taken as the raw number.
FromNum2ResultCodeRaw(num) == num

FromNum2ResultCode(num) ==
    CASE num = 1 -> FORMERR
      [] num = 2 -> SERVFAIL
      [] num = 3 -> NXDOMAIN
      [] num = 4 -> NOTIMP
      [] num = 5 -> REFUSED
      [] OTHER -> NOERROR

RecordTypeToNum(typ) ==
    CASE typ = A -> 1
      [] typ = NS -> 2
      [] typ = CNAME -> 5
      [] typ = MX -> 15
      [] typ = AAAA -> 28
      [] OTHER -> 0

FromNum2RecordType(num) ==
    CASE num = 1 -> A
      [] num = 2 -> NS
      [] num = 5 -> CNAME
      [] num = 15 -> MX
      [] num = 28 -> AAAA
      [] OTHER -> UNKNOWN

\* The first flag byte DnsHeader.Write builds and writes.
HeaderFlagA(h) ==
    LET f0 == IF h.RecursionDesired THEN BitOr(0, 1) ELSE 0
        f1 == IF h.TruncatedMessage THEN BitOr(f0, Shl(1, 1)) ELSE f0
        f2 == IF h.AuthoritativeAnswer THEN BitOr(f1, Shl(1, 2)) ELSE f1
        f3 == BitOr(f2, U8(Shl(h.Opcode, 3)))
    IN  IF h.Response THEN BitOr(f3, Shl(1, 7)) ELSE f3

\* The second flag byte DnsHeader.Write builds; the code never hands it
\* to the buffer.
HeaderFlagB(h) ==
    LET f0 == BitOr(0, U8(h.Rescode))
        f1 == IF h.CheckingDisabled THEN BitOr(f0, Shl(1, 4)) ELSE f0
        f2 == IF h.AuthedData THEN BitOr(f1, Shl(1, 5)) ELSE f1
        f3 == IF h.Z THEN BitOr(f2, Shl(1, 6)) ELSE f2
    IN  IF h.RecursionAvailable THEN BitOr(f3, Shl(1, 7)) ELSE f3

\* A run of buffer writes, each followed by "if err != nil { return err }".
\* An item is <<"u8", v>>, <<"u16", v>>, <<"u32", v>> or <<"qname", name>>.
WriteItem(b, item) ==
    CASE item[1] = "u8" -> Write1Byte(b, item[2])
      [] item[1] = "u16" -> Write2Byte(b, item[2])
      [] item[1] = "u32" -> Write4Byte(b, item[2])
      [] item[1] = "qname" -> WriteQName(b, item[2])

\* The writes of items lo..hi, in order, returning at the first error: the
\* first half of the range, then the second.
RECURSIVE WriteSeqFrom(_, _, _, _)
WriteSeqFrom(b, items, lo, hi) ==
    IF lo > hi THEN Res(b, Nil, 0)
    ELSE IF lo = hi THEN WriteItem(b, items[lo])
    ELSE Try(WriteSeqFrom(b, items, lo, (lo + hi) \div 2), LAMBDA r :
         WriteSeqFrom(r.b, items, (lo + hi) \div 2 + 1, hi))

WriteSeq(b, items) == With(items, LAMBDA its : WriteSeqFrom(b, its, 1, Len(its)))

\* DnsHeader.Write: id, the first flag byte, then the four counts.
HeaderWrite(b, h) ==
    WriteSeq(b, << <<"u16", h.ID>>, <<"u8", HeaderFlagA(h)>>,
                   <<"u16", h.Questions>>, <<"u16", h.Answers>>,
                   <<"u16", h.AuthoritativeEntries>>, <<"u16", h.ResourceEntries>> >>)

\* "h.f, err = call": the field is assigned whether or not err is nil.
Field(r, h, f) == With(r, LAMBDA x : Res(x.b, x.err, [h EXCEPT ![f] = x.val]))

\* The ten fields DnsHeader.Read takes from the flags word.
HeaderFlags(h, flags) ==
    LET a == U8(Shr(flags, 8))
        bb == U8(BitAnd(flags, 255))
    IN  [h EXCEPT
           !.RecursionDesired = BitAnd(a, Shl(1, 0)) > 0,
           !.TruncatedMessage = BitAnd(a, Shl(1, 1)) > 0,
           !.AuthoritativeAnswer = BitAnd(a, Shl(1, 2)) > 0,
           !.Opcode = BitAnd(Shr(a, 3), 15),
           !.Response = BitAnd(a, Shl(1, 7)) > 0,
           !.Rescode = FromNum2ResultCode(BitAnd(bb, 15)),
           !.CheckingDisabled = BitAnd(bb, Shl(1, 4)) > 0,
           !.AuthedData = BitAnd(bb, Shl(1, 5)) > 0,
           !.Z = BitAnd(bb, Shl(1, 6)) > 0,
           !.RecursionAvailable = BitAnd(bb, Shl(1, 7)) > 0]

\* DnsHeader.Read; val is the header as the call leaves it.
HeaderRead(b, h) ==
    Try(Field(Read2Bytes(b), h, "ID"), LAMBDA r1 :
    With(Read2Bytes(r1.b), LAMBDA r2 :
    IF r2.err # Nil THEN Res(r2.b, r2.err, r1.val)
    ELSE
    Try(Field(Read2Bytes(r2.b), HeaderFlags(r1.val, r2.val), "Questions"), LAMBDA r3 :
    Try(Field(Read2Bytes(r3.b), r3.val, "Answers"), LAMBDA r4 :
    Try(Field(Read2Bytes(r4.b), r4.val, "AuthoritativeEntries"), LAMBDA r5 :
    Field(Read2Bytes(r5.b), r5.val, "ResourceEntries"))))))

----------------------------------------------------------------------------
(* Question codec *)

NewDnsQuestion(name, qtype) == [Name |-> name, Type |-> qtype]

\* DnsQuestion.Write: the type is written as uint16(dq.Type).
QuestionWrite(b, dq) ==
    WriteSeq(b, << <<"qname", dq.Name>>, <<"u16", U16(dq.Type)>>, <<"u16", 1>> >>)

\* DnsQuestion.Read; val is the question as the call leaves it.
QuestionRead(b, dq) ==
    Try(Field(ReadQName(b), dq, "Name"), LAMBDA r1 :
    With(Read2Bytes(r1.b), LAMBDA r2 :
    IF r2.err # Nil THEN Res(r2.b, r2.err, r1.val)
    ELSE
    With(Read2Bytes(r2.b), LAMBDA r3 :
    Res(r3.b, r3.err, [r1.val EXCEPT !.Type = FromNum2RecordType(r2.val)]))))

----------------------------------------------------------------------------
(* Record codec *)

\* A net.IP is a byte sequence; the nil slice is the empty sequence.
NilIP == <<>>

\* The zero value of DnsRecord, which the constructors fill in part.
ZeroRecord ==
    [Type |-> UNKNOWN, Domain |-> <<>>, QType |-> 0, DataLen |-> 0, TTL |-> Zero32,
     Addr |-> NilIP, Host |-> <<>>, Priority |-> 0]

NewADnsRecord(domain, addr, ttl) ==
    [ZeroRecord EXCEPT !.Type = A, !.Domain = domain, !.Addr = addr, !.TTL = ttl]

NewNSDnsRecord(domain, host, ttl) ==
    [ZeroRecord EXCEPT !.Type = NS, !.Domain = domain, !.Host = host, !.TTL = ttl]

NewCNameDnsRecord(domain, host, ttl) ==
    [ZeroRecord EXCEPT !.Type = CNAME, !.Domain = domain, !.Host = host, !.TTL = ttl]

NewMXDnsRecord(domain, host, priority, ttl) ==
    [ZeroRecord EXCEPT !.Type = MX, !.Domain = domain, !.Host = host,
                       !.Priority = priority, !.TTL = ttl]

NewAAAADnsRecord(domain, addr, ttl) ==
    [ZeroRecord EXCEPT !.Type = AAAA, !.Domain = domain, !.Addr = addr, !.TTL = ttl]

\* net.IPv4(a, b, c, d): the 16-byte IPv4-in-IPv6 form.
IPv4(a, b, c, d) == <<0, 0, 0, 0, 0, 0, 0, 0, 0, 0, 255, 255, a, b, c, d>>

\* net.IP.To4: the 4-byte form of an IPv4 address, nil otherwise.
To4(ip) ==
    IF Len(ip) = 4 THEN ip
    ELSE IF Len(ip) = 16 /\ (\A i \in 1..10 : ip[i] = 0) /\ ip[11] = 255 /\ ip[12] = 255
         THEN SubSeq(ip, 13, 16)
    ELSE NilIP

\* net.IP.To16: the 16-byte form, nil when the length is neither 4 nor 16.
To16(ip) ==
    IF Len(ip) = 4 THEN IPv4(ip[1], ip[2], ip[3], ip[4])
    ELSE IF Len(ip) = 16 THEN ip
    ELSE NilIP

\* The four bytes of a uint32, most significant first.
Bytes4(w) == <<Byte32(w, 1), Byte32(w, 2), Byte32(w, 3), Byte32(w, 4)>>

\* The switch of ReadDnsRecord, after the fixed fields are read.
RecordData(b, domain, qtypeNum, ttl, dataLen) ==
    LET qtype == FromNum2RecordType(qtypeNum)
    IN  CASE qtype = A ->
               Try(Read4Bytes(b), LAMBDA a1 :
               With(Bytes4(a1.val), LAMBDA o :
               Res(a1.b, Nil, NewADnsRecord(domain, IPv4(o[1], o[2], o[3], o[4]), ttl))))
          [] qtype = AAAA ->
               Try(Read4Bytes(b), LAMBDA a1 :
               Try(Read4Bytes(a1.b), LAMBDA a2 :
               Try(Read4Bytes(a2.b), LAMBDA a3 :
               Try(Read4Bytes(a3.b), LAMBDA a4 :
               Res(a4.b, Nil,
                   NewAAAADnsRecord(domain,
                                    Bytes4(a1.val) \o Bytes4(a2.val) \o Bytes4(a3.val)
                                        \o Bytes4(a4.val),
                                    ttl))))))
          [] qtype = NS ->
               Try(ReadQName(b), LAMBDA n :
               Res(n.b, Nil, NewNSDnsRecord(domain, n.val, ttl)))
          [] qtype = CNAME ->
               Try(ReadQName(b), LAMBDA n :
               Res(n.b, Nil, NewCNameDnsRecord(domain, n.val, ttl)))
          [] qtype = MX ->
               Try(Read2Bytes(b), LAMBDA p :
               Try(ReadQName(p.b), LAMBDA n :
               Res(n.b, Nil, NewMXDnsRecord(domain, n.val, p.val, ttl))))
          [] OTHER ->
               Try(Step(b, U16(dataLen)), LAMBDA st :
               Res(st.b, Nil,
                   [ZeroRecord EXCEPT !.Type = UNKNOWN, !.Domain = domain,
                                      !.QType = qtypeNum, !.DataLen = dataLen,
                                      !.TTL = ttl]))

\* ReadDnsRecord; val is the record returned, the zero record standing for
\* the nil pointer returned with an error.
ReadDnsRecord(b) ==
    With(Try(ReadQName(b), LAMBDA r1 :
         Try(Read2Bytes(r1.b), LAMBDA r2 :
         Try(Read2Bytes(r2.b), LAMBDA r3 :
         Try(Read4Bytes(r3.b), LAMBDA r4 :
         Try(Read2Bytes(r4.b), LAMBDA r5 :
         RecordData(r5.b, r1.val, r2.val, r4.val, r5.val)))))),
         LAMBDA r : IF r.err # Nil THEN Res(r.b, r.err, ZeroRecord) ELSE r)

\* name, type code, class 1 and TTL: the start of every case of DnsRecord.Write.
RecordHead(d, typ) ==
    << <<"qname", d.Domain>>, <<"u16", U16(RecordTypeToNum(typ))>>, <<"u16", U16(1)>>,
       <<"u32", d.TTL>> >>

\* The backpatch with the size counted from the RDLENGTH field itself.
BackpatchFromField(b, pos) ==
    LET size == U16(b.Pos - pos)
    IN  Set2Bytes(b, pos, size)

\* The end of the NS, CNAME, MX and AAAA cases: the RDLENGTH placeholder at
\* pos is overwritten with the number of bytes written after it.
Backpatch(b, pos) ==
    LET size == U16(b.Pos - U16(pos + 2))
    IN  Set2Bytes(b, pos, size)

\* The eight big-endian 16-bit segments of a 16-byte address.
Segments(ip) ==
    [i \in 1..(Len(ip) \div 2) |-> <<"u16", ip[2 * i - 1] * 256 + ip[2 * i]>>]

\* The switch of DnsRecord.Write.
RecordBody(b, d) ==
    CASE d.Type = A ->
           Try(WriteSeq(b, RecordHead(d, A) \o << <<"u16", U16(4)>> >>), LAMBDA r1 :
           With(To4(d.Addr), LAMBDA ip :
           IF ip = NilIP THEN Res(r1.b, ErrIPv4, 0)
           ELSE WriteSeq(r1.b, << <<"u8", ip[1]>>, <<"u8", ip[2]>>,
                                  <<"u8", ip[3]>>, <<"u8", ip[4]>> >>)))
      [] d.Type \in {NS, CNAME} ->
           Try(WriteSeq(b, RecordHead(d, d.Type)), LAMBDA r1 :
           Try(WriteSeq(r1.b, << <<"u16", U16(0)>>, <<"qname", d.Host>> >>), LAMBDA r2 :
           Backpatch(r2.b, r1.b.Pos)))
      [] d.Type = MX ->
           Try(WriteSeq(b, RecordHead(d, MX)), LAMBDA r1 :
           Try(WriteSeq(r1.b, << <<"u16", U16(0)>>, <<"u16", d.Priority>>,
                                 <<"qname", d.Host>> >>), LAMBDA r2 :
           Backpatch(r2.b, r1.b.Pos)))
      [] d.Type = AAAA ->
           Try(WriteSeq(b, RecordHead(d, AAAA)), LAMBDA r1 :
           Try(WriteSeq(r1.b, << <<"u16", U16(16)>> >>), LAMBDA r2 :
           With(To16(d.Addr), LAMBDA ip :
           IF ip = NilIP THEN Res(r2.b, ErrIPv6, 0)
           ELSE Try(WriteSeq(r2.b, Segments(ip)), LAMBDA r3 :
                Backpatch(r3.b, r1.b.Pos)))))
      [] OTHER -> Res(b, Nil, 0)

\* DnsRecord.Write; val is the returned byte count (0 with an error).
RecordWrite(b, d) ==
    With(RecordBody(b, d), LAMBDA r :
    IF r.err # Nil THEN Res(r.b, r.err, 0)
    ELSE Res(r.b, Nil, U16(r.b.Pos + 65536 - b.Pos)))

----------------------------------------------------------------------------
(* Buffer specification: calls of the BytePacketBuffer primitives on one   *)
(* buffer, at most MaxMoves cursor moves (Seek, Step) and MaxOps other     *)
(* calls.  A panic ends the program.                                       *)

MaxMoves == 2
MaxOps == 1

\* A datagram whose bytes differ from their neighbours.
PatternBuf == [i \in 0..(BufSize - 1) |-> (i * 7 + 3) % 256]

PosInputs == {0, 1, 510, 511, 512, 513, 65535}
StepInputs == {1, 2, 512, 65535}
RangeStarts == {0, 100, 509, 510, 511, 512, 65535}
RangeLens == {0, 1, 2, 3, 411, 412, 65535}
ByteInputs == {171}
WordInputs == {43981}
DWordInputs == {Word32(1, 2, 3, 4)}

\* A Go value with its type: a record of one field, named after the type
\* ("num", "bytes", "word", "header", "question", "record", "packet", "none").
Wrap(kind, v) == kind :> v
Kind(o) == CHOOSE k \in DOMAIN o : TRUE
Val(o) == o[Kind(o)]

NoObj == Wrap("none", 0)
NoCall == [op |-> "none", arg |-> <<>>, err |-> Nil, val |-> NoObj]
NoRQ == [st |-> "idle"]

\* The codec program's variables, unused by the buffer specification.
CodecIdle ==
    /\ pc = "idle" /\ obj = NoObj /\ sent = NoObj /\ data = <<>>
    /\ sec = 0 /\ idx = 0 /\ starts = <<>> /\ rounds = 0 /\ src = "input"

InitBuf ==
    /\ Buf = PatternBuf
    /\ Pos = 0
    /\ pre = Buffer(PatternBuf, 0)
    /\ call = NoCall
    /\ moves = 0
    /\ nops = 0
    /\ rq = NoRQ
    /\ CodecIdle

\* The effect of a call with result r on the buffer, and its record.
Apply(op, arg, r, kind) ==
    /\ Buf' = r.b.Buf
    /\ Pos' = r.b.Pos
    /\ pre' = Buffer(Buf, Pos)
    /\ call' = [op |-> op, arg |-> arg, err |-> r.err, val |-> Wrap(kind, r.val)]

Running == call.err # Panic

Move(op, arg, r) ==
    /\ Running
    /\ moves < MaxMoves
    /\ Apply(op, arg, r, "num")
    /\ moves' = moves + 1
    /\ UNCHANGED <<nops, rq, pc, obj, sent, data, sec, idx, starts, rounds, src>>

Op(op, arg, r, kind) ==
    /\ Running
    /\ nops < MaxOps
    /\ Apply(op, arg, r, kind)
    /\ nops' = nops + 1
    /\ UNCHANGED <<moves, rq, pc, obj, sent, data, sec, idx, starts, rounds, src>>

DoSeek == \E p \in PosInputs : Move("Seek", <<p>>, Seek(Buffer(Buf, Pos), p))
DoStep == \E n \in StepInputs : Move("Step", <<n>>, Step(Buffer(Buf, Pos), n))
DoRead == Op("Read", <<>>, Read(Buffer(Buf, Pos)), "num")
DoRead2Bytes == Op("Read2Bytes", <<>>, Read2Bytes(Buffer(Buf, Pos)), "num")
DoRead4Bytes == Op("Read4Bytes", <<>>, Read4Bytes(Buffer(Buf, Pos)), "word")
DoGet == \E p \in PosInputs : Op("Get", <<p>>, Get(Buffer(Buf, Pos), p), "num")
DoGetRange ==
    \E s \in RangeStarts, l \in RangeLens :
        Op("GetRange", <<s, l>>, GetRange(Buffer(Buf, Pos), s, l), "bytes")
DoWrite1Byte == \E v \in ByteInputs : Op("Write1Byte", <<v>>, Write1Byte(Buffer(Buf, Pos), v), "num")
DoWrite2Byte == \E v \in WordInputs : Op("Write2Byte", <<v>>, Write2Byte(Buffer(Buf, Pos), v), "num")
DoWrite4Byte == \E v \in DWordInputs : Op("Write4Byte", v, Write4Byte(Buffer(Buf, Pos), v), "num")
DoSet == \E p \in PosInputs, v \in ByteInputs : Op("Set", <<p, v>>, Set(Buffer(Buf, Pos), p, v), "num")
DoSet2Bytes ==
    \E p \in PosInputs, v \in WordInputs :
        Op("Set2Bytes", <<p, v>>, Set2Bytes(Buffer(Buf, Pos), p, v), "num")

NextBuf ==
    \/ DoSeek
    \/ DoStep
    \/ DoRead
    \/ DoRead2Bytes
    \/ DoRead4Bytes
    \/ DoGet
    \/ DoGetRange
    \/ DoWrite1Byte
    \/ DoWrite2Byte
    \/ DoWrite4Byte
    \/ DoSet
    \/ DoSet2Bytes

SpecBuf == InitBuf /\ [][NextBuf]_vars

----------------------------------------------------------------------------
(* Name-decode specification: one ReadQName call, an iteration of its loop *)
(* at a time, on hand-built datagrams.  The call runs to its return: the   *)
(* code has no suspension point (weak fairness of the next step).          *)

\* Wire fixtures: a label, a compression pointer, bytes laid at offsets.
Lbl(bytes) == <<Len(bytes)>> \o bytes
Ptr(off) == <<192 + (off \div 256), off % 256>>
Fill(n, c) == [i \in 1..n |-> c]

RECURSIVE Lay(_, _)
Lay(buf, chunks) ==
    IF chunks = <<>> THEN buf
    ELSE LET at == Head(chunks)[1]
             bytes == Head(chunks)[2]
         IN  Lay([i \in 0..(BufSize - 1) |->
                     IF i >= at /\ i < at + Len(bytes) THEN bytes[i - at + 1] ELSE buf[i]],
                 Tail(chunks))

\* "www.GooGle.com" at 12 (labels at 12, 16 and 23, terminator at 27)
NameChunks ==
    << <<12, Lbl(<<119, 119, 119>>) \o Lbl(<<71, 111, 111, 71, 108, 101>>)
             \o Lbl(<<99, 111, 109>>) \o <<0>> >>,
       <<30, Ptr(12)>>,                                  \* backward pointer
       <<32, Lbl(<<70, 111, 111>>) \o Ptr(16)>>,         \* "Foo" then a pointer
       <<40, Ptr(60)>>,                                  \* forward pointer
       <<42, Lbl(<<98>>) \o Ptr(40)>>,                   \* label, backward, forward
       <<60, Lbl(<<97>>) \o <<0>> >>,                    \* "a"
       <<64, Ptr(66) \o Ptr(68) \o Ptr(70) \o Ptr(72) \o Ptr(74) \o Ptr(76) \o Ptr(60)>>,
       <<80, Ptr(80)>>,                                  \* a pointer to itself
       <<82, Ptr(84) \o Ptr(82)>>,                       \* two pointers at each other
       <<90, Ptr(512)>>,                                 \* target outside the buffer
       <<92, <<255, 255>> >>,
       <<100, <<64>> \o Fill(64, 120) \o <<0>> >>,       \* a 64-byte label
       <<170, Lbl(<<97, 98>>) \o Ptr(170)>>,             \* a label and a pointer back to it
       <<180, Lbl(<<99>>) \o Ptr(190)>>,
       <<190, Lbl(<<100>>) \o Ptr(60)>>,
       <<200, <<0>> >>,                                  \* the root name
       <<210, Lbl(<<65, 255>>) \o <<0>> >>,              \* "A" and a byte that is no text
       <<220, Lbl(<<239, 191, 189>>) \o <<0>> >>,       \* U+FFFD itself
       <<300, <<191>> \o Fill(191, 65) \o <<0>> >>,      \* the longest label
       <<495, <<20>> \o Fill(11, 113)>> >>               \* a label running past the end

\* The name "xyz" ending on the last byte of the buffer.
NameBuf == Lay(NewBytePacketBuffer.Buf, NameChunks \o << <<507, Lbl(<<120, 121, 122>>) \o <<0>> >> >>)

\* A label whose last byte is the last byte of the buffer, which is also the
\* first byte of a pointer (510 -> 192) and a pointer cut by the end (511).
NameBuf2 ==
    Lay(NewBytePacketBuffer.Buf,
        NameChunks \o << <<192, Lbl(<<122>>) \o <<0>> >>,
                         <<505, <<6>> \o Fill(4, 113) \o <<192, 192>> >> >>)

NameStarts ==
    {12, 16, 23, 27, 30, 32, 40, 42, 60, 64, 66, 68, 70, 72, 74, 76, 80, 82, 84, 90, 92,
     100, 170, 180, 190, 200, 210, 220, 300, 495, 505, 507, 510, 511}

InitRQ ==
    /\ Buf \in {NameBuf, NameBuf2}
    /\ Pos \in NameStarts
    /\ pre = Buffer(Buf, Pos)
    /\ call = NoCall
    /\ moves = 0
    /\ nops = 0
    /\ rq = NoRQ
    /\ CodecIdle

RQKeep == UNCHANGED <<moves, nops, pc, obj, sent, data, sec, idx, starts, rounds, src>>

\* ReadQName is entered: its locals are initialised.
RQBegin ==
    /\ rq.st = "idle"
    /\ call.op = "none"
    /\ rq' = RQInit(Buffer(Buf, Pos))
    /\ pre' = Buffer(Buf, Pos)
    /\ UNCHANGED <<Buf, Pos, call>>
    /\ RQKeep

\* One iteration of the loop.
RQLoop ==
    /\ rq.st = "loop"
    /\ rq' = RQIter(rq)
    /\ Buf' = rq'.b.Buf
    /\ Pos' = rq'.b.Pos
    /\ UNCHANGED <<pre, call>>
    /\ RQKeep

\* The code after the loop.
RQEnd ==
    /\ rq.st = "break"
    /\ rq' = RQFinish(rq)
    /\ Buf' = rq'.b.Buf
    /\ Pos' = rq'.b.Pos
    /\ UNCHANGED <<pre, call>>
    /\ RQKeep

\* ReadQName returns to its caller.
RQExit ==
    /\ rq.st = "return"
    /\ rq' = NoRQ
    /\ call' = [op |-> "ReadQName", arg |-> <<>>, err |-> rq.err, val |-> Wrap("bytes", rq.sb)]
    /\ UNCHANGED <<Buf, Pos, pre>>
    /\ RQKeep

NextRQ ==
    \/ RQBegin
    \/ RQLoop
    \/ RQEnd
    \/ RQExit

SpecRQ == InitRQ /\ [][NextRQ]_vars /\ WF_vars(NextRQ)

----------------------------------------------------------------------------
(* Message assembly *)

NewDnsPacket ==
    [Header |-> ZeroHeader, Questions |-> <<>>, Answers |-> <<>>,
     Authorities |-> <<>>, Resources |-> <<>>]

\* The four sequences of a packet, in wire order, and their element counts.
Section(d, s) ==
    CASE s = 1 -> d.Questions
      [] s = 2 -> d.Answers
      [] s = 3 -> d.Authorities
      [] s = 4 -> d.Resources

Lengths(d) == [s \in 1..4 |-> Len(Section(d, s))]

\* The counts with the answer and authority counts taken for each other.
CountsSwapped(h) == <<h.Questions, h.AuthoritativeEntries, h.Answers, h.ResourceEntries>>

Counts(h) == <<h.Questions, h.Answers, h.AuthoritativeEntries, h.ResourceEntries>>

\* DnsPacket.Write, first four statements: the counts are overwritten.
SetCounts(d) ==
    [d EXCEPT !.Header.Questions = U16(Len(d.Questions)),
              !.Header.Answers = U16(Len(d.Answers)),
              !.Header.AuthoritativeEntries = U16(Len(d.Authorities)),
              !.Header.ResourceEntries = U16(Len(d.Resources))]

\* The four loops run one after the other: from index i of loop s, the next
\* <<loop, index>> to execute, loop 5 when all are over.
RECURSIVE NextSlot(_, _, _)
NextSlot(n, s, i) ==
    IF s > 4 THEN <<5, 0>>
    ELSE IF i < n[s] THEN <<s, i>>
    ELSE NextSlot(n, s + 1, 0)

\* The body of a loop of DnsPacket.Write: q.Write or a.Write.
EntryWrite(b, d, s, i) ==
    IF s = 1 THEN QuestionWrite(b, d.Questions[i + 1])
    ELSE RecordWrite(b, Section(d, s)[i + 1])

\* The body of a loop with the error of the read dropped.
EntryReadLenient(b, s) ==
    [(IF s = 1 THEN QuestionRead(b, NewDnsQuestion(<<>>, UNKNOWN))
      ELSE ReadDnsRecord(b)) EXCEPT !.err = Nil]

\* The body of a loop of FromBuffer2DnsPacket.
EntryRead(b, s) ==
    IF s = 1 THEN QuestionRead(b, NewDnsQuestion(<<>>, UNKNOWN))
    ELSE ReadDnsRecord(b)

\* packet.X = append(packet.X, entry)
EntryAppend(d, s, e) ==
    CASE s = 1 -> [d EXCEPT !.Questions = Append(@, e)]
      [] s = 2 -> [d EXCEPT !.Answers = Append(@, e)]
      [] s = 3 -> [d EXCEPT !.Authorities = Append(@, e)]
      [] s = 4 -> [d EXCEPT !.Resources = Append(@, e)]

----------------------------------------------------------------------------
(* Codec specification: the program either encodes a value into a fresh    *)
(* buffer, sends the bytes written (Buf[:Pos]) as a datagram and decodes   *)
(* the datagram from a fresh buffer, or decodes a received datagram and    *)
(* encodes what it decoded into a fresh buffer.  DnsPacket.Write and       *)
(* FromBuffer2DnsPacket advance one entry at a time.  MaxRounds bounds the *)
(* number of times a value changes buffers, MaxDecodes the number of       *)
(* single values decoded.                                                  *)

MaxRounds == 1
MaxDecodes == 2

\* Names: "com", "google.com", "Ab.C", "ns1.a.io"
NameCom == <<99, 111, 109>>
NameGoogle == <<103, 111, 111, 103, 108, 101, 46, 99, 111, 109>>
NameMixed == <<65, 98, 46, 67>>
NameNs == <<110, 115, 49, 46, 97, 46, 105, 111>>

\* A label of 63 bytes, one of 64, and names whose second label is as long.
Name63 == Fill(MaxLabel, 97)
Name64 == Fill(MaxLabel + 1, 97)
NameThen63 == <<98, Dot>> \o Name63
NameThen64 == <<98, Dot>> \o Name64

QNameInputs == {NameCom, NameGoogle, NameMixed, Name63, Name64, NameThen63, NameThen64}

\* The header of main's query, and a response header with every flag set.
QueryHeader == [ZeroHeader EXCEPT !.ID = 6666, !.Questions = 1, !.RecursionDesired = TRUE]
FullHeader ==
    [ZeroHeader EXCEPT !.ID = 43981, !.RecursionDesired = TRUE, !.TruncatedMessage = TRUE,
                       !.AuthoritativeAnswer = TRUE, !.Opcode = 15, !.Response = TRUE,
                       !.Rescode = REFUSED, !.CheckingDisabled = TRUE, !.AuthedData = TRUE,
                       !.Z = TRUE, !.RecursionAvailable = TRUE,
                       !.Questions = 258, !.Answers = 3, !.AuthoritativeEntries = 2,
                       !.ResourceEntries = 1]

HeaderInputs ==
    {ZeroHeader, QueryHeader, FullHeader,
     [ZeroHeader EXCEPT !.Rescode = NXDOMAIN, !.Response = TRUE, !.RecursionAvailable = TRUE],
     [ZeroHeader EXCEPT !.Opcode = 2, !.AuthedData = TRUE]}

QuestionInputs ==
    {NewDnsQuestion(n, t) : n \in {NameCom, NameGoogle}, t \in {UNKNOWN, A, NS, CNAME, MX, AAAA}}

Addr4 == <<142, 250, 1, 2>>
Addr6 == <<32, 1, 13, 184, 0, 0, 0, 0, 0, 0, 0, 0, 0, 0, 0, 1>>
TTL300 == Word32(0, 0, 1, 44)
TTLBig == Word32(255, 254, 253, 252)

RecA == NewADnsRecord(NameCom, Addr4, TTL300)
RecA16 == NewADnsRecord(NameGoogle, IPv4(10, 0, 0, 1), TTLBig)
RecNS == NewNSDnsRecord(NameCom, NameNs, TTL300)
RecCNAME == NewCNameDnsRecord(NameGoogle, NameCom, TTL300)
RecMX == NewMXDnsRecord(NameCom, NameNs, 10, TTLBig)
RecAAAA == NewAAAADnsRecord(NameCom, Addr6, TTL300)
RecUnknown == [ZeroRecord EXCEPT !.Domain = NameCom, !.QType = 16, !.DataLen = 3, !.TTL = TTL300]

RecordInputs ==
    {RecA, RecA16, RecNS, RecCNAME, RecMX, RecAAAA, RecUnknown,
     NewADnsRecord(NameCom, Addr6, TTL300),           \* not an IPv4 address
     NewADnsRecord(NameCom, NilIP, TTL300),
     NewAAAADnsRecord(NameCom, Addr4, TTL300),        \* rendered as ::ffff:a.b.c.d
     NewAAAADnsRecord(NameCom, <<1, 2, 3>>, TTL300)}  \* not an address

Packet(h, qs, an, ns, ar) ==
    [Header |-> h, Questions |-> qs, Answers |-> an, Authorities |-> ns, Resources |-> ar]

Rep(n, r) == [i \in 1..n |-> r]

\* Messages about as large as the buffer.  DnsPacket.Write asks for 11
\* bytes for the header, 9 for the question, 27 for RecNS, 29 for RecMX,
\* 31 for RecAAAA and 19 for RecA: 512 bytes in all for PacketFull, 513
\* for PacketOver with an NS or an MX record last, 524 for PacketCut, whose
\* last record has its RDLENGTH placeholder on the last two bytes of the
\* buffer, and far more for PacketLong.
QuestionCom == NewDnsQuestion(NameCom, A)
PacketFull == Packet(ZeroHeader, <<QuestionCom>>, <<RecAAAA, RecMX>>, Rep(16, RecNS), <<>>)
PacketOver ==
    Packet(ZeroHeader, <<QuestionCom, QuestionCom>>, <<RecA, RecAAAA>>, Rep(14, RecNS),
           <<RecMX, RecNS>>)
PacketOverMX ==
    Packet(ZeroHeader, <<QuestionCom, QuestionCom>>, <<RecA, RecAAAA>>, Rep(15, RecNS),
           <<RecMX>>)
PacketCut == Packet(ZeroHeader, <<>>, Rep(19, RecNS), <<>>, <<>>)
PacketLong == Packet(QueryHeader, <<QuestionCom>>, Rep(9, RecAAAA), Rep(9, RecMX), Rep(3, RecA))

\* main's query; the same for a one-label name; responses with one record
\* of each type; a packet whose header counts are stale; an empty packet.
PacketInputs ==
    {Packet(QueryHeader, <<NewDnsQuestion(NameGoogle, A)>>, <<>>, <<>>, <<>>),
     Packet(QueryHeader, <<NewDnsQuestion(NameCom, A)>>, <<>>, <<>>, <<>>),
     Packet([FullHeader EXCEPT !.Opcode = 0], <<NewDnsQuestion(NameCom, MX)>>,
            <<RecMX, RecA>>, <<RecNS>>, <<RecAAAA, RecCNAME>>),
     Packet(ZeroHeader, <<>>, <<RecA>>, <<>>, <<>>),
     Packet([ZeroHeader EXCEPT !.Questions = 7, !.Answers = 9], <<>>, <<>>, <<RecUnknown>>, <<>>),
     Packet(ZeroHeader, <<>>, <<>>, <<>>, <<>>),
     PacketFull, PacketOver, PacketOverMX, PacketCut, PacketLong,
     \* a record that cannot be written, in the middle of a message
     Packet(ZeroHeader, <<QuestionCom>>, <<RecA, NewADnsRecord(NameCom, NilIP, TTL300), RecNS>>,
            <<RecMX>>, <<>>),
     Packet(ZeroHeader, <<NewDnsQuestion(NameThen64, A), QuestionCom>>, <<RecA>>, <<>>, <<>>)}

Inputs ==
    {Wrap("qname", n) : n \in QNameInputs} \cup {Wrap("header", h) : h \in HeaderInputs}
    \cup {Wrap("question", q) : q \in QuestionInputs}
    \cup {Wrap("record", r) : r \in RecordInputs}
    \cup {Wrap("packet", d) : d \in PacketInputs}

\* Received datagrams: 12-byte headers with every flag bit and every
\* response-code nibble, headers with other ids and counts, and a captured
\* response to the query for google.com whose answer name is a pointer.
Hi(w) == w \div 256
Lo(w) == w % 256
HeaderWire(id, a, b, c) ==
    <<Hi(id), Lo(id), a, b, Hi(c[1]), Lo(c[1]), Hi(c[2]), Lo(c[2]),
      Hi(c[3]), Lo(c[3]), Hi(c[4]), Lo(c[4])>>

FlagAInputs == {0, 1, 2, 4, 8, 16, 32, 64, 128, 120, 255}
FlagBInputs == (0..15) \cup {16, 32, 64, 128, 133, 255}

CapturedResponse ==
    HeaderWire(34346, 129, 128, <<1, 1, 0, 0>>)
    \o Lbl(<<103, 111, 111, 103, 108, 101>>) \o Lbl(<<99, 111, 109>>) \o <<0>>
    \o <<0, 1, 0, 1>>
    \o Ptr(12) \o <<0, 1, 0, 1, 0, 0, 1, 44, 0, 4>> \o Addr4

\* A name followed by a header: the header is decoded at a cursor other
\* than 0 once the name is decoded.
NameThenHeader(a, b) == Lbl(NameCom) \o <<0>> \o HeaderWire(43981, a, b, <<1, 2, 3, 4>>)

\* A record on the wire: name, type code, class 1, TTL, RDLENGTH, data.
RecordWire(name, code, ttl, len, rdata) ==
    name \o <<Hi(code), Lo(code), 0, 1>> \o Bytes4(ttl) \o <<Hi(len), Lo(len)>> \o rdata

\* A response with entries in all four sections: the question google.com
\* at 12 ("com" at 19); a CNAME and an A answer; an NS authority; an AAAA
\* and a TXT (type 16) additional record.
FullResponse ==
    HeaderWire(4660, 129, 128, <<1, 2, 1, 2>>)
    \o Lbl(<<103, 111, 111, 103, 108, 101>>) \o Lbl(<<99, 111, 109>>) \o <<0>>
    \o <<0, 1, 0, 1>>
    \o RecordWire(Ptr(12), 5, TTL300, 6, Lbl(<<119, 119, 119>>) \o Ptr(12))
    \o RecordWire(Ptr(12), 1, TTL300, 4, Addr4)
    \o RecordWire(Ptr(19), 2, TTLBig, 6, Lbl(<<110, 115, 49>>) \o Ptr(12))
    \o RecordWire(Lbl(<<110, 115, 49>>) \o Ptr(12), 28, TTL300, 16, Addr6)
    \o RecordWire(Ptr(12), 16, TTL300, 3, <<2, 104, 105>>)

\* Records of types the code does not know, with data lengths from the
\* wire that stay inside the buffer, leave it, and pass 65535.
UnknownCodes == {0, 16, 65535}
UnknownLens == {0, 3, 497, 65535}
UnknownWire(code, len) == RecordWire(Lbl(NameCom) \o <<0>>, code, TTL300, len, <<>>)

\* A response of two answers whose first, at 12, has an unrecognised type
\* and a data-length, 65509, that reaches 65536 from the end of its
\* RDLENGTH field, at 27.  The header's own bytes read as a record: the root name,
\* type 0, data-length 0.
WrapResponse == HeaderWire(0, 0, 0, <<0, 2, 0, 0>>) \o UnknownWire(16, 65509)

Datagrams ==
    {HeaderWire(6699, a, b, <<1, 0, 0, 0>>) : a \in FlagAInputs, b \in FlagBInputs}
    \cup {HeaderWire(258, 129, 131, <<1, 2, 3, 4>>), HeaderWire(65535, 0, 0, <<258, 0, 0, 0>>),
          HeaderWire(0, 0, 5, <<0, 0, 0, 0>>), CapturedResponse,
          NameThenHeader(255, 133), NameThenHeader(42, 9), FullResponse}
    \cup {UnknownWire(c, n) : c \in UnknownCodes, n \in UnknownLens}
    \cup {WrapResponse}

Init ==
    /\ pre = NewBytePacketBuffer
    /\ call = NoCall
    /\ moves = 0 /\ nops = 0 /\ rq = NoRQ
    /\ sent = NoObj
    /\ sec = 0 /\ idx = 0 /\ starts = <<>> /\ rounds = 0
    /\ Pos = 0
    /\ \/ /\ obj \in Inputs
          /\ src = "input"
          /\ data = <<>>
          /\ Buf = NewBytePacketBuffer.Buf
          /\ pc = "ready"
       \/ /\ obj = NoObj
          /\ src = "wire"
          /\ data \in Datagrams
          /\ Buf = SetBuffer(NewBytePacketBuffer, data).Buf
          /\ pc = "loaded"

CodecKeep == UNCHANGED <<moves, nops, rq>>

\* A whole-value encode: X.Write(buffer) on the value in hand.
Encode(op, r) ==
    /\ pc = "ready"
    /\ Apply(op, <<>>, r, "num")
    /\ pc' = IF r.err = Nil THEN "written" ELSE "failed"
    /\ UNCHANGED <<obj, sent, data, sec, idx, starts, rounds, src>>
    /\ CodecKeep

\* A whole-value decode from the cursor; the value decoded is the value in
\* hand.  A caller may decode one value after another from the same buffer,
\* MaxDecodes times in all.
Decode(kind, op, r) ==
    /\ pc \in {"loaded", "parsed"}
    /\ nops < MaxDecodes
    /\ Apply(op, <<>>, r, kind)
    /\ obj' = Wrap(kind, r.val)
    /\ src' = "wire"
    /\ pc' = IF r.err = Nil THEN "parsed" ELSE "failed"
    /\ nops' = nops + 1
    /\ starts' = Append(starts, Pos)
    /\ UNCHANGED <<sent, data, sec, idx, rounds, moves, rq>>

WriteName ==
    /\ Kind(obj) = "qname"
    /\ \E r \in {WriteQName(Buffer(Buf, Pos), Val(obj))} : Encode("WriteQName", r)

WriteHeader ==
    /\ Kind(obj) = "header"
    /\ \E r \in {HeaderWrite(Buffer(Buf, Pos), Val(obj))} : Encode("DnsHeader.Write", r)

WriteQuestion ==
    /\ Kind(obj) = "question"
    /\ \E r \in {QuestionWrite(Buffer(Buf, Pos), Val(obj))} : Encode("DnsQuestion.Write", r)

WriteRecord ==
    /\ Kind(obj) = "record"
    /\ \E r \in {RecordWrite(Buffer(Buf, Pos), Val(obj))} : Encode("DnsRecord.Write", r)

ReadName == \E r \in {ReadQName(Buffer(Buf, Pos))} : Decode("qname", "ReadQName", r)

ReadHeader ==
    \E r \in {HeaderRead(Buffer(Buf, Pos), ZeroHeader)} : Decode("header", "DnsHeader.Read", r)

ReadQuestion ==
    \E r \in {QuestionRead(Buffer(Buf, Pos), NewDnsQuestion(<<>>, UNKNOWN))} :
        Decode("question", "DnsQuestion.Read", r)

ReadRecord == \E r \in {ReadDnsRecord(Buffer(Buf, Pos))} : Decode("record", "ReadDnsRecord", r)

\* DnsPacket.Write up to its first loop: the counts, then the header.
PacketWriteBegin ==
    /\ pc = "ready"
    /\ Kind(obj) = "packet"
    /\ \E d \in {SetCounts(Val(obj))} :
       \E r \in {HeaderWrite(Buffer(Buf, Pos), d.Header)} :
       \E slot \in {NextSlot(Lengths(d), 1, 0)} :
           /\ Apply("DnsPacket.Write", <<0, 0>>, r, "num")
           /\ obj' = Wrap("packet", d)
           /\ pc' = IF r.err # Nil THEN "failed"
                    ELSE IF slot[1] = 5 THEN "written" ELSE "writing"
           /\ sec' = slot[1]
           /\ idx' = slot[2]
    /\ UNCHANGED <<sent, data, starts, rounds, src>>
    /\ CodecKeep

\* One iteration of a loop of DnsPacket.Write.
PacketWriteEntry ==
    /\ pc = "writing"
    /\ \E d \in {Val(obj)} :
       \E r \in {EntryWrite(Buffer(Buf, Pos), d, sec, idx)} :
       \E slot \in {NextSlot(Lengths(d), sec, idx + 1)} :
           /\ Apply("DnsPacket.Write", <<sec, idx>>, r, "num")
           /\ pc' = IF r.err # Nil THEN "failed"
                    ELSE IF slot[1] = 5 THEN "written" ELSE "writing"
           /\ sec' = IF r.err # Nil THEN sec ELSE slot[1]
           /\ idx' = IF r.err # Nil THEN idx ELSE slot[2]
    /\ UNCHANGED <<obj, sent, data, starts, rounds, src>>
    /\ CodecKeep

\* FromBuffer2DnsPacket up to its first loop: NewDnsPacket, Header.Read.
PacketReadBegin ==
    /\ pc = "loaded"
    /\ \E r \in {HeaderRead(Buffer(Buf, Pos), ZeroHeader)} :
       \E slot \in {NextSlot(Counts(r.val), 1, 0)} :
           /\ Apply("FromBuffer2DnsPacket", <<0, 0>>, r, "header")
           /\ obj' = IF r.err # Nil THEN NoObj
                     ELSE Wrap("packet", [NewDnsPacket EXCEPT !.Header = r.val])
           /\ pc' = IF r.err # Nil THEN "failed"
                    ELSE IF slot[1] = 5 THEN "parsed" ELSE "reading"
           /\ sec' = slot[1]
           /\ idx' = slot[2]
    /\ starts' = Append(starts, Pos)
    /\ src' = "wire"
    /\ UNCHANGED <<sent, data, rounds>>
    /\ CodecKeep

\* One iteration of a loop of FromBuffer2DnsPacket; nil is returned on error.
PacketReadEntry ==
    /\ pc = "reading"
    /\ \E d \in {Val(obj)} :
       \E r \in {EntryRead(Buffer(Buf, Pos), sec)} :
       \E slot \in {NextSlot(Counts(d.Header), sec, idx + 1)} :
           /\ Apply("FromBuffer2DnsPacket", <<sec, idx>>, r, IF sec = 1 THEN "question" ELSE "record")
           /\ obj' = IF r.err # Nil THEN NoObj ELSE Wrap("packet", EntryAppend(d, sec, r.val))
           /\ pc' = IF r.err # Nil THEN "failed"
                    ELSE IF slot[1] = 5 THEN "parsed" ELSE "reading"
           /\ sec' = IF r.err # Nil THEN sec ELSE slot[1]
           /\ idx' = IF r.err # Nil THEN idx ELSE slot[2]
    /\ starts' = Append(starts, Pos)
    /\ UNCHANGED <<sent, data, rounds, src>>
    /\ CodecKeep

\* main: the bytes written, Buf[:Pos], travel as a datagram and are loaded
\* into a fresh buffer (NewBytePacketBuffer, SetBuffer).
Transmit ==
    /\ pc = "written"
    /\ rounds < MaxRounds
    /\ LET bytes == [i \in 1..Pos |-> Buf[i - 1]]
           b == SetBuffer(NewBytePacketBuffer, bytes)
       IN  /\ data' = bytes
           /\ Buf' = b.Buf
           /\ Pos' = b.Pos
    /\ pre' = Buffer(Buf, Pos)
    /\ call' = [op |-> "SetBuffer", arg |-> <<>>, err |-> Nil, val |-> NoObj]
    /\ sent' = obj
    /\ obj' = NoObj
    /\ pc' = "loaded"
    /\ rounds' = rounds + 1
    /\ starts' = <<>>
    /\ UNCHANGED <<sec, idx, src>>
    /\ CodecKeep

\* The decoded value is encoded again, into a fresh buffer.
Reencode ==
    /\ pc = "parsed"
    /\ rounds < MaxRounds
    /\ Buf' = NewBytePacketBuffer.Buf
    /\ Pos' = NewBytePacketBuffer.Pos
    /\ pre' = Buffer(Buf, Pos)
    /\ call' = [op |-> "NewBytePacketBuffer", arg |-> <<>>, err |-> Nil, val |-> NoObj]
    /\ pc' = "ready"
    /\ rounds' = rounds + 1
    /\ UNCHANGED <<obj, sent, data, sec, idx, starts, src>>
    /\ CodecKeep

Next ==
    \/ WriteName
    \/ WriteHeader
    \/ WriteQuestion
    \/ WriteRecord
    \/ ReadName
    \/ ReadHeader
    \/ ReadQuestion
    \/ ReadRecord
    \/ PacketWriteBegin
    \/ PacketWriteEntry
    \/ PacketReadBegin
    \/ PacketReadEntry
    \/ Transmit
    \/ Reencode

Spec == Init /\ [][Next]_vars

----------------------------------------------------------------------------
(* Claims about the cursor buffer (buffer specification) *)

\* C8: after any sequence of buffer operations the position is in [0, 512].
CursorInRange == Pos \in 0..BufSize

\* C9: for every start and len of the 16-bit range, GetRange(start, len)
\* returns the end-of-buffer error when start+len reaches or exceeds 512 and
\* the bytes at [start, start+len) otherwise, and never moves the cursor.
GetRangeBound ==
    call.op = "GetRange" =>
        LET start == call.arg[1]
            len == call.arg[2]
        IN  /\ Pos = pre.Pos
            /\ Buf = pre.Buf
            /\ IF start + len >= 512 THEN call.err = ErrEnd
               ELSE /\ call.err = Nil
                    /\ call.val.bytes = [i \in 1..len |-> pre.Buf[start + i - 1]]

\* C10: Get(pos), and Read with the cursor at pos, return the stored byte
\* for pos in 0..511 and the end-of-buffer error for pos >= 512; Get never
\* moves the cursor, Read advances it by 1 on success and not on failure.
SingleByteBound ==
    /\ call.op = "Get" =>
          /\ Pos = pre.Pos
          /\ Buf = pre.Buf
          /\ IF call.arg[1] <= 511 THEN call.err = Nil /\ call.val.num = pre.Buf[call.arg[1]]
             ELSE call.err = ErrEnd
    /\ call.op = "Read" =>
          /\ Buf = pre.Buf
          /\ IF pre.Pos <= 511
             THEN call.err = Nil /\ call.val.num = pre.Buf[pre.Pos] /\ Pos = pre.Pos + 1
             ELSE call.err = ErrEnd /\ Pos = pre.Pos

\* C10's case: the last byte of the buffer is read and fetched.
SingleByteBoundWitness ==
    \/ call.op = "Read" /\ pre.Pos = 511 /\ call.err = Nil /\ Pos = 512
    \/ call.op = "Get" /\ call.arg = <<511>> /\ call.err = Nil /\ pre.Pos = 512

----------------------------------------------------------------------------
(* Claims about name decoding (name-decode specification) *)

\* Where the run of plain labels that starts at p stops: at a terminator,
\* at a pointer, or outside the buffer.
RECURSIVE RefWalk(_, _)
RefWalk(buf, p) ==
    IF p >= 512 THEN [kind |-> "out", at |-> p]
    ELSE IF buf[p] >= 192 THEN [kind |-> "ptr", at |-> p]
    ELSE IF buf[p] = 0 THEN [kind |-> "end", at |-> p]
    ELSE RefWalk(buf, p + 1 + buf[p])

\* The labels of the name at p, pointers followed (at most fuel of them).
RECURSIVE RefLabels(_, _, _)
RefLabels(buf, p, fuel) ==
    IF buf[p] = 0 THEN <<>>
    ELSE IF buf[p] >= 192
         THEN IF fuel = 0 THEN <<>>
              ELSE RefLabels(buf, (buf[p] - 192) * 256 + buf[p + 1], fuel - 1)
    ELSE << [i \in 1..buf[p] |-> buf[p + i]] >> \o RefLabels(buf, p + 1 + buf[p], fuel)

RECURSIVE RefJoin(_)
RefJoin(labels) ==
    IF labels = <<>> THEN <<>>
    ELSE IF Len(labels) = 1 THEN labels[1]
    ELSE labels[1] \o <<46>> \o RefJoin(Tail(labels))

RefLower(bytes) ==
    [i \in 1..Len(bytes) |-> IF bytes[i] \in 65..90 THEN bytes[i] + 32 ELSE bytes[i]]

\* C4: a successful ReadQName returns the labels joined by '.' in lowercase;
\* with no pointer in the name the cursor is one past the terminating zero,
\* otherwise it is 2 past the first pointer met.
CursorAfterName ==
    (call.op = "ReadQName" /\ call.err = Nil) =>
        LET w == RefWalk(pre.Buf, pre.Pos)
        IN  /\ call.val.bytes = RefLower(RefJoin(RefLabels(pre.Buf, pre.Pos, 6)))
            /\ w.kind \in {"end", "ptr"}
            /\ w.kind = "end" => Pos = w.at + 1
            /\ w.kind = "ptr" => Pos = w.at + 2
            /\ Buf = pre.Buf

\* C5: ReadQName always returns, and on two pointers at each other or a
\* pointer at itself it returns the jump-limit error.
NameDecodeTerminates ==
    /\ <>(call.op = "ReadQName")
    /\ [](call.op = "ReadQName" /\ pre.Pos \in {80, 82, 84} => call.err = ErrJumps)

\* C5's case: the call that started on the two pointers at each other has
\* returned the jump-limit error.
NameDecodeTerminatesWitness ==
    call.op = "ReadQName" /\ pre.Pos = 82 /\ call.err = ErrJumps

\* How many pointers the decoding of the name at p follows, n of them
\* followed so far: 6 once a sixth is followed, -1 when before that the
\* name leaves the buffer or has a label of more than 63 bytes.
RECURSIVE RefChase(_, _, _)
RefChase(buf, p, n) ==
    IF p >= 512 THEN -1
    ELSE IF buf[p] >= 192
         THEN IF p + 1 >= 512 THEN -1
              ELSE IF n = 5 THEN 6
              ELSE RefChase(buf, (buf[p] - 192) * 256 + buf[p + 1], n + 1)
    ELSE IF buf[p] = 0 THEN n
    ELSE IF buf[p] > 63 \/ p + 1 + buf[p] >= 512 THEN -1
    ELSE RefChase(buf, p + 1 + buf[p], n)

\* C17: ReadQName succeeds on a well-formed name whose decoding follows at
\* most 5 pointers, and returns the jump-limit error when the decoding
\* follows more than 5.
JumpLimitThreshold ==
    (call.op = "ReadQName") =>
        LET n == RefChase(pre.Buf, pre.Pos, 0)
        IN  /\ n \in 0..5 => call.err = Nil
            /\ n = 6 => call.err = ErrJumps

\* C17's case: a name behind exactly 5 pointers has been decoded.
JumpLimitThresholdWitness ==
    /\ call.op = "ReadQName"
    /\ RefChase(pre.Buf, pre.Pos, 0) = 5
    /\ call.err = Nil
    /\ call.val.bytes = <<97>>

----------------------------------------------------------------------------
(* Claims about the codec, checked under Spec *)

\* The types a record or question of a message in the claims' range has.
RefTypes == {A, NS, CNAME, MX, AAAA}

\* A name of one or more labels of 1..63 bytes each.
RefValidName(name) ==
    /\ Len(name) >= 1
    /\ name[1] # Dot /\ name[Len(name)] # Dot
    /\ \A i \in 1..(Len(name) - 1) : ~(name[i] = Dot /\ name[i + 1] = Dot)
    /\ \A i \in 1..Len(name) :
         (\A j \in i..(i + MaxLabel) : j <= Len(name) /\ name[j] # Dot) => FALSE

\* The length of the label that starts after position p of the name.
RefLabelLen(name, p) ==
    LET stops == {q \in (p + 1)..(Len(name) + 1) : q = Len(name) + 1 \/ name[q] = Dot}
    IN  (CHOOSE q \in stops : \A x \in stops : q <= x) - p - 1

\* The wire form of a name: each label behind its length byte, then one
\* zero byte.  It is two bytes longer than the dotted name.
RefWire(name) ==
    [k \in 1..(Len(name) + 2) |->
        IF k = Len(name) + 2 THEN 0
        ELSE IF k = 1 THEN RefLabelLen(name, 0)
        ELSE IF name[k - 1] = Dot THEN RefLabelLen(name, k - 1)
        ELSE name[k - 1]]

\* The on-wire code of each type.
RefCode == (A :> 1) @@ (NS :> 2) @@ (CNAME :> 5) @@ (MX :> 15) @@ (AAAA :> 28)

RefValidRecord(r) ==
    /\ r.Type \in RefTypes
    /\ RefValidName(r.Domain)
    /\ r.Type \in {NS, CNAME, MX} => RefValidName(r.Host)

RefValidMessage(d) ==
    /\ d.Header.Opcode \in 0..15
    /\ d.Header.Rescode \in 0..5
    /\ \A i \in 1..Len(d.Questions) :
         RefValidName(d.Questions[i].Name) /\ d.Questions[i].Type \in RefTypes
    /\ \A s \in 2..4 : \A i \in 1..Len(Section(d, s)) : RefValidRecord(Section(d, s)[i])

RefSameName(x, y) == ToLower(x) = ToLower(y)

RefSameEntry(s, x, y) ==
    IF s = 1 THEN RefSameName(x.Name, y.Name) /\ x.Type = y.Type
    ELSE /\ x.Type = y.Type
         /\ RefSameName(x.Domain, y.Domain)
         /\ RefSameName(x.Host, y.Host)
         /\ To16(x.Addr) = To16(y.Addr)
         /\ x.Priority = y.Priority
         /\ x.TTL = y.TTL

RefSameMessage(x, y) ==
    /\ x.Header = y.Header
    /\ \A s \in 1..4 :
         /\ Len(Section(x, s)) = Len(Section(y, s))
         /\ \A i \in 1..Len(Section(x, s)) : RefSameEntry(s, Section(x, s)[i], Section(y, s)[i])

\* C1: a message in the valid range that DnsPacket.Write encoded into a
\* fresh buffer is decoded by FromBuffer2DnsPacket from position 0 without
\* error, and the decoded message has the same header, questions and
\* records, in the same order, names compared without letter case.
MessageRoundTrip ==
    (/\ Kind(sent) = "packet"
     /\ call.op = "FromBuffer2DnsPacket"
     /\ pc \in {"parsed", "failed"}
     /\ RefValidMessage(Val(sent)))
    => (pc = "parsed" /\ RefSameMessage(Val(sent), Val(obj)))

\* C2: a header decoded by DnsHeader.Read from 12 bytes whose response-code
\* nibble is 0..5 is written by DnsHeader.Write into a fresh buffer as the
\* same 12 bytes, leaving the cursor at 12.
HeaderWriteInvertsRead ==
    (/\ call.op = "DnsHeader.Write"
     /\ src = "wire"
     /\ pre.Pos = 0
     /\ Len(data) >= starts[Len(starts)] + 12
     /\ data[starts[Len(starts)] + 4] % 16 \in 0..5)
    => (/\ call.err = Nil
        /\ Pos = 12
        /\ \A k \in 0..11 : Buf[k] = data[starts[Len(starts)] + k + 1])

\* C3: WriteQName of a name of n >= 1 labels of 1..63 bytes each, with room
\* in the buffer, writes each label behind its length byte and then exactly
\* one zero byte, and advances the cursor by the label lengths plus n + 1
\* (the length of the dotted name plus 2).
NameEncodeLayout ==
    (/\ call.op = "WriteQName"
     /\ Kind(obj) = "qname"
     /\ RefValidName(Val(obj))
     /\ pre.Pos + Len(Val(obj)) + 2 <= BufSize)
    => (/\ call.err = Nil
        /\ Pos = pre.Pos + Len(Val(obj)) + 2
        /\ \A k \in 1..(Len(Val(obj)) + 2) : Buf[pre.Pos + k - 1] = RefWire(Val(obj))[k])

\* C6: DnsQuestion.Write of a question of type T in {A, NS, CNAME, MX, AAAA}
\* ends with the 2-byte on-wire code of T and class 1, and DnsQuestion.Read
\* of the written bytes returns type T.
QuestionTypeOnWire ==
    /\ (/\ call.op = "DnsQuestion.Write"
        /\ call.err = Nil
        /\ Val(obj).Type \in RefTypes)
       => <<Buf[Pos - 4], Buf[Pos - 3], Buf[Pos - 2], Buf[Pos - 1]>>
              = <<0, RefCode[Val(obj).Type], 0, 1>>
    /\ (/\ call.op = "DnsQuestion.Read"
        /\ Kind(sent) = "question"
        /\ pre.Pos = 0
        /\ Val(sent).Type \in RefTypes)
       => (call.err = Nil /\ Val(obj).Type = Val(sent).Type)

\* Bit k of a byte.
RefBit(byte, k) == (byte \div (2 ^ k)) % 2 = 1

\* C7: DnsHeader.Read with 12 bytes at the cursor succeeds, advances the
\* cursor by 12, and sets the id from bytes 0-1, the flags and the opcode
\* from byte 2, the response code (1..5 as named, anything else NOERROR)
\* and the other flags from byte 3, and the four big-endian counts from
\* bytes 4-11.
HeaderReadLayout ==
    (call.op = "DnsHeader.Read" /\ pre.Pos + 12 <= BufSize)
    => LET B(k) == pre.Buf[pre.Pos + k]
           h == call.val.header
           code == B(3) % 16
       IN  /\ call.err = Nil
           /\ Pos = pre.Pos + 12
           /\ h.ID = B(0) * 256 + B(1)
           /\ h.RecursionDesired = RefBit(B(2), 0)
           /\ h.TruncatedMessage = RefBit(B(2), 1)
           /\ h.AuthoritativeAnswer = RefBit(B(2), 2)
           /\ h.Opcode = (B(2) \div 8) % 16
           /\ h.Response = RefBit(B(2), 7)
           /\ h.Rescode = IF code \in 1..5
                          THEN <<FORMERR, SERVFAIL, NXDOMAIN, NOTIMP, REFUSED>>[code]
                          ELSE NOERROR
           /\ h.CheckingDisabled = RefBit(B(3), 4)
           /\ h.AuthedData = RefBit(B(3), 5)
           /\ h.Z = RefBit(B(3), 6)
           /\ h.RecursionAvailable = RefBit(B(3), 7)
           /\ h.Questions = B(4) * 256 + B(5)
           /\ h.Answers = B(6) * 256 + B(7)
           /\ h.AuthoritativeEntries = B(8) * 256 + B(9)
           /\ h.ResourceEntries = B(10) * 256 + B(11)

\* A header decoded at cursor 5 from flag bytes FF 85: every flag of byte 2
\* set, opcode 15, response code 5 with recursion-available.
HeaderReadLayoutWitness ==
    /\ call.op = "DnsHeader.Read"
    /\ pre.Pos = 5
    /\ pre.Buf[7] = 255 /\ pre.Buf[8] = 133
    /\ Pos = 17
    /\ call.val.header.Opcode = 15
    /\ call.val.header.Rescode = REFUSED
    /\ call.val.header.RecursionAvailable
    /\ ~call.val.header.Z

\* The bytes each part of a message takes when DnsPacket.Write's call for
\* it is made on a buffer of its own, and their sum: the bytes the message
\* needs.
RefPartSize(s, e) ==
    (IF s = 1 THEN QuestionWrite(NewBytePacketBuffer, e)
     ELSE RecordWrite(NewBytePacketBuffer, e)).b.Pos

RefPartFits(s, e) ==
    (IF s = 1 THEN QuestionWrite(NewBytePacketBuffer, e)
     ELSE RecordWrite(NewBytePacketBuffer, e)).err = Nil

RECURSIVE RefSum(_)
RefSum(sizes) == IF sizes = <<>> THEN 0 ELSE Head(sizes) + RefSum(Tail(sizes))

RefNeed(d) ==
    HeaderWrite(NewBytePacketBuffer, d.Header).b.Pos
    + RefSum([s \in 1..4 |->
                 RefSum([i \in 1..Len(Section(d, s)) |-> RefPartSize(s, Section(d, s)[i])])])

RefWritable(d) ==
    \A s \in 1..4 : \A i \in 1..Len(Section(d, s)) : RefPartFits(s, Section(d, s)[i])

\* C11: all through DnsPacket.Write on a fresh buffer, the RDLENGTH
\* backpatch included, no index outside the 512-byte array is used and the
\* cursor is at most 512; a message of writable parts that needs more than
\* 512 bytes ends with the end-of-buffer error; on success the cursor is
\* the number of bytes the message needs, at most 512.
EncodeStaysInside ==
    call.op = "DnsPacket.Write" =>
        /\ call.err # Panic
        /\ DOMAIN Buf = 0..(BufSize - 1)
        /\ Pos <= BufSize
        /\ pc = "written" => Pos = RefNeed(Val(obj))
        /\ (pc \in {"written", "failed"} /\ RefWritable(Val(obj))
                /\ RefNeed(Val(obj)) > BufSize)
           => call.err = ErrEnd

\* C11's case: the nineteenth NS record of a message has had its RDLENGTH
\* placeholder written on the last two bytes of the buffer, and the write
\* of its host name has returned the end-of-buffer error.
EncodeStaysInsideWitness ==
    /\ call.op = "DnsPacket.Write"
    /\ call.arg = <<2, 18>>
    /\ call.err = ErrEnd
    /\ pc = "failed"
    /\ pre.Pos = 497
    /\ Pos = BufSize
    /\ RefNeed(Val(obj)) = 524

\* The section the k-th entry after a header belongs to.
RefSectionOf(h, k) ==
    IF k <= h.Questions THEN 1
    ELSE IF k <= h.Questions + h.Answers THEN 2
    ELSE IF k <= h.Questions + h.Answers + h.AuthoritativeEntries THEN 3
    ELSE 4

\* The questions and records of a message, in wire order.
RefEntries(d) == d.Questions \o d.Answers \o d.Authorities \o d.Resources

\* The entry decoded at a position: a question in section 1, a record in
\* the others.
RefEntryAt(buf, at, s) ==
    IF s = 1 THEN QuestionRead(Buffer(buf, at), NewDnsQuestion(<<>>, UNKNOWN))
    ELSE ReadDnsRecord(Buffer(buf, at))

\* C12: FromBuffer2DnsPacket reads the header, then header.Questions
\* questions, header.Answers answers, header.AuthoritativeEntries
\* authorities and header.ResourceEntries additional records, in that
\* order, each from where the one before ended; on success each sequence
\* is as long as its header count and holds its entries in wire order.
CountsDriveDecode ==
    (call.op = "FromBuffer2DnsPacket" /\ call.err = Nil) =>
        LET d == Val(obj)
            h == d.Header
            n == Len(starts) - 1
            total == h.Questions + h.Answers + h.AuthoritativeEntries + h.ResourceEntries
        IN  /\ h = HeaderRead(Buffer(Buf, starts[1]), ZeroHeader).val
            /\ n <= total
            /\ n = Len(RefEntries(d))
            /\ n > 0 => call.arg[1] = RefSectionOf(h, n)
            /\ \A k \in 1..n :
                 LET e == RefEntryAt(Buf, starts[k + 1], RefSectionOf(h, k))
                 IN  /\ starts[k + 1] =
                            (IF k = 1 THEN HeaderRead(Buffer(Buf, starts[1]), ZeroHeader).b.Pos
                             ELSE RefEntryAt(Buf, starts[k], RefSectionOf(h, k - 1)).b.Pos)
                     /\ RefEntries(d)[k] = e.val
                     /\ k = n => Pos = e.b.Pos
            /\ pc = "parsed" <=> n = total
            /\ pc = "parsed" =>
                 /\ Len(d.Questions) = h.Questions
                 /\ Len(d.Answers) = h.Answers
                 /\ Len(d.Authorities) = h.AuthoritativeEntries
                 /\ Len(d.Resources) = h.ResourceEntries

\* C12's case: the response with one question, two answers, one authority
\* and two additional records is decoded to its end.
CountsDriveDecodeWitness ==
    /\ call.op = "FromBuffer2DnsPacket"
    /\ pc = "parsed"
    /\ data = FullResponse
    /\ Pos = Len(FullResponse)
    /\ Lengths(Val(obj)) = <<1, 2, 1, 2>>
    /\ Val(obj).Answers[1].Type = CNAME
    /\ Val(obj).Resources[2].QType = 16

\* The big-endian 16-bit number at index i of a buffer.
RefU16(buf, i) == buf[i] * 256 + buf[i + 1]

\* C13: whatever the caller stored in the header's counts, after
\* DnsPacket.Write the message's header holds the lengths of the four
\* sequences, and so do the four counts on the wire (bytes 4-5, 6-7, 8-9
\* and 10-11 of the message).
CountsDerivedOnEncode ==
    (call.op = "DnsPacket.Write" /\ pc = "written") =>
        LET d == Val(obj)
        IN  /\ d.Header.Questions = Len(d.Questions)
            /\ d.Header.Answers = Len(d.Answers)
            /\ d.Header.AuthoritativeEntries = Len(d.Authorities)
            /\ d.Header.ResourceEntries = Len(d.Resources)
            /\ RefU16(Buf, 4) = Len(d.Questions)
            /\ RefU16(Buf, 6) = Len(d.Answers)
            /\ RefU16(Buf, 8) = Len(d.Authorities)
            /\ RefU16(Buf, 10) = Len(d.Resources)

\* The record a record write has just written: the value in hand, or the
\* entry of the message DnsPacket.Write was at.
RefWrittenRecord ==
    IF call.op = "DnsRecord.Write" THEN Val(obj)
    ELSE Section(Val(obj), call.arg[1])[call.arg[2] + 1]

RefRecordWritten ==
    /\ call.err = Nil
    /\ \/ call.op = "DnsRecord.Write"
       \/ call.op = "DnsPacket.Write" /\ call.arg[1] \in 2..4

\* C14: after DnsRecord.Write succeeds on an NS, CNAME or MX record, the
\* two bytes right after the TTL hold the number of bytes written after
\* them for the record, the cursor minus (their position + 2), an MX
\* record's priority coming first among those bytes; no byte before the
\* record or from the cursor on is changed.
LengthBackpatched ==
    (RefRecordWritten /\ RefWrittenRecord.Type \in {NS, CNAME, MX}) =>
        LET r == RefWrittenRecord
        IN  /\ \E p \in (pre.Pos + 8)..(Pos - 2) :
                 /\ <<Buf[p - 8], Buf[p - 7], Buf[p - 6], Buf[p - 5]>> = <<0, RefCode[r.Type], 0, 1>>
                 /\ <<Buf[p - 4], Buf[p - 3], Buf[p - 2], Buf[p - 1]>> = Bytes4(r.TTL)
                 /\ RefU16(Buf, p) = Pos - (p + 2)
                 /\ RefU16(Buf, p) > 0
                 /\ r.Type = MX => RefU16(Buf, p + 2) = r.Priority
            /\ \A i \in 0..(BufSize - 1) : (i < pre.Pos \/ i >= Pos) => Buf[i] = pre.Buf[i]

\* C14's case: the MX record that is the first answer of a message, written
\* behind the header and the question, has its RDLENGTH of 14 (priority
\* and host name) at bytes 33-34.
LengthBackpatchedWitness ==
    /\ call.op = "DnsPacket.Write"
    /\ call.arg = <<2, 0>>
    /\ call.err = Nil
    /\ RefWrittenRecord = RecMX
    /\ pre.Pos = 20
    /\ Pos = 49
    /\ RefU16(Buf, 33) = 14
    /\ RefU16(Buf, 35) = 10

\* The result of the step a message decode or encode has just made, taken
\* on its own from the buffer as it was before the step.
RefStep ==
    IF call.op = "FromBuffer2DnsPacket"
    THEN IF call.arg = <<0, 0>> THEN HeaderRead(pre, ZeroHeader)
         ELSE RefEntryAt(pre.Buf, pre.Pos, call.arg[1])
    ELSE IF call.arg = <<0, 0>> THEN HeaderWrite(pre, Val(obj).Header)
         ELSE IF call.arg[1] = 1 THEN QuestionWrite(pre, RefWrittenRecord)
         ELSE RecordWrite(pre, RefWrittenRecord)

\* C15: when a header, question or record read fails, FromBuffer2DnsPacket
\* returns that error and no message, and when a write fails DnsPacket.Write
\* returns that error; in both cases nothing more is parsed or written.
AllOrNothing ==
    /\ [](call.op \in {"FromBuffer2DnsPacket", "DnsPacket.Write"} =>
            /\ call.err = RefStep.err
            /\ (RefStep.err # Nil) =>
                 /\ pc = "failed"
                 /\ Buf = RefStep.b.Buf /\ Pos = RefStep.b.Pos
                 /\ call.op = "FromBuffer2DnsPacket" => obj = NoObj)
    /\ [][pc # "failed"]_vars

\* C15's case: a question after the first could not be read, and the
\* decode has returned the error and no message.
AllOrNothingWitness ==
    /\ call.op = "FromBuffer2DnsPacket"
    /\ call.arg[1] = 1 /\ call.arg[2] > 0
    /\ call.err = ErrEnd
    /\ pc = "failed"
    /\ obj = NoObj

\* Some label of the name has more than 63 bytes: 64 bytes in a row are
\* not a separator.
RefLongLabel(name) ==
    \E i \in 1..Len(name) :
        \A j \in i..(i + MaxLabel) : j <= Len(name) /\ name[j] # Dot

\* C16: with room in the buffer, WriteQName returns the label-too-long
\* error if and only if some label has more than 63 bytes; a label of
\* exactly 63 bytes is written behind the length byte 63.
LabelLimit ==
    (call.op = "WriteQName" /\ Kind(obj) = "qname" /\ pre.Pos + 2 * Len(Val(obj)) + 2 <= BufSize)
    => LET name == Val(obj)
       IN  /\ call.err = ErrLabel <=> RefLongLabel(name)
           /\ ~RefLongLabel(name) => call.err = Nil
           /\ (name = Name63) =>
                /\ Buf[pre.Pos] = MaxLabel
                /\ \A k \in 1..MaxLabel : Buf[pre.Pos + k] = name[k]

\* C16's case: a name whose second label has exactly 63 bytes is written.
LabelLimitWitness ==
    /\ call.op = "WriteQName"
    /\ Val(obj) = NameThen63
    /\ call.err = Nil
    /\ \E p \in 1..4 : Buf[p] = MaxLabel /\ Buf[p + MaxLabel] = 97

\* The fixed fields of the record at the cursor of the call, when the name
\* before them can be read and they lie inside the buffer.
RefFixed ==
    LET nm == ReadQName(pre)
        f == nm.b.Pos
    IN  IF nm.err # Nil \/ f + 10 > BufSize
        THEN [ok |-> FALSE, code |-> 0, ttl |-> Zero32, len |-> 0, end |-> 0]
        ELSE [ok |-> TRUE,
              code |-> RefU16(pre.Buf, f),
              ttl |-> <<pre.Buf[f + 4], pre.Buf[f + 5], pre.Buf[f + 6], pre.Buf[f + 7]>>,
              len |-> RefU16(pre.Buf, f + 8),
              end |-> f + 10]

\* C18: a record whose type code is none of 1, 2, 5, 15, 28 decodes
\* without error as Unknown with its type code, TTL and data-length, and
\* the cursor ends data-length bytes past the end of the RDLENGTH field.
UnknownDecode ==
    (call.op = "ReadDnsRecord" /\ RefFixed.ok /\ RefFixed.code \notin {1, 2, 5, 15, 28})
    => /\ call.err = Nil
       /\ Val(obj).Type = UNKNOWN
       /\ Val(obj).QType = RefFixed.code
       /\ Val(obj).TTL = RefFixed.ttl
       /\ Val(obj).DataLen = RefFixed.len
       /\ Buf = pre.Buf
       /\ Pos = RefFixed.end + RefFixed.len

\* C19: DnsRecord.Write of an A (AAAA) record returns the address error
\* when the address cannot be rendered as 4 (16) bytes, and then the
\* buffer's bytes and cursor are as before the call; when it succeeds the
\* record ends with RDLENGTH 4 (16) and that many address bytes.
AddressWidth ==
    (/\ call.op = "DnsRecord.Write"
     /\ Kind(obj) = "record"
     /\ Val(obj).Type \in {A, AAAA}
     /\ ~RefLongLabel(Val(obj).Domain)
     /\ pre.Pos + 2 * Len(Val(obj).Domain) + 28 <= BufSize)
    => LET d == Val(obj)
           w == IF d.Type = A THEN 4 ELSE 16
           ip == IF d.Type = A THEN To4(d.Addr) ELSE To16(d.Addr)
       IN  /\ (ip = NilIP) => /\ call.err = (IF d.Type = A THEN ErrIPv4 ELSE ErrIPv6)
                               /\ Buf = pre.Buf
                               /\ Pos = pre.Pos
           /\ (ip # NilIP) => /\ call.err = Nil
                               /\ RefU16(Buf, Pos - w - 2) = w
                               /\ \A k \in 1..w : Buf[Pos - w - 2 + 1 + k] = ip[k]

\* The entries of section s whose write puts at least one byte in the
\* buffer.
RefEmitted(d, s) ==
    {i \in 1..Len(Section(d, s)) : RefPartSize(s, Section(d, s)[i]) > 0}

\* C20: in the bytes of a successful DnsPacket.Write each of the four
\* header counts (bytes 4-5, 6-7, 8-9, 10-11) is the number of entries of
\* its section that were written, Unknown-type records included.
EmittedCountsMatch ==
    (call.op = "DnsPacket.Write" /\ pc = "written") =>
        \A s \in 1..4 : RefU16(Buf, 2 + 2 * s) = Cardinality(RefEmitted(Val(obj), s))

\* C21: during FromBuffer2DnsPacket the cursor never decreases, and every
\* question or record that is parsed starts at a position strictly greater
\* than the start of the one before it.
ForwardProgress ==
    (call.op = "FromBuffer2DnsPacket") =>
        /\ Pos >= pre.Pos
        /\ \A k \in 2..(Len(starts) - 1) : starts[k + 1] > starts[k]

====
